---------------------------- MODULE Spec2Model ----------------------------
(***************************************************************************)
(* A model of unSafeLinks.py: the URL decoder (decode_safelink), the       *)
(* clipboard access layer (get_clipboard_text, set_clipboard_text) and the *)
(* watch loop (run_service), together with the part of the operating       *)
(* system they talk to: the clipboard gate (OpenClipboard/CloseClipboard), *)
(* the clipboard's CF_UNICODETEXT payload, the global memory block of a    *)
(* write, and the other processes that share the clipboard.                *)
(*                                                                         *)
(* A Python str is a sequence of characters; a character is a one-letter   *)
(* string ("a", "%") or, for a control character and for the three        *)
(* characters a TLA+ string cannot hold, its name ("NUL", "QUOTE").        *)
(***************************************************************************)
EXTENDS Integers, Sequences, FiniteSets, TLC

(***************************************************************************)
(* Characters                                                              *)
(***************************************************************************)

\* The 128 ASCII characters in code order: ASCII[n + 1] is chr(n).
ASCII ==
  <<
    "NUL", "SOH", "STX", "ETX", "EOT", "ENQ", "ACK", "BEL", "BS", "TAB",
    "LF", "VT", "FF", "CR", "SO", "SI", "DLE", "DC1", "DC2", "DC3", "DC4",
    "NAK", "SYN", "ETB", "CAN", "EM", "SUB", "ESC", "FS", "GS", "RS", "US",
    " ", "!", "QUOTE", "#", "$", "%", "&", "'", "(", ")", "*", "+", ",", "-",
    ".", "/", "0", "1", "2", "3", "4", "5", "6", "7", "8", "9", ":", ";",
    "<", "=", ">", "?", "@", "A", "B", "C", "D", "E", "F", "G", "H", "I",
    "J", "K", "L", "M", "N", "O", "P", "Q", "R", "S", "T", "U", "V", "W",
    "X", "Y", "Z", "[", "BACKSLASH", "]", "^", "_", "GRAVE", "a", "b", "c", "d", "e",
    "f", "g", "h", "i", "j", "k", "l", "m", "n", "o", "p", "q", "r", "s",
    "t", "u", "v", "w", "x", "y", "z", "{", "|", "}", "~", "DEL"
  >>

\* U+FFFD, what bytes.decode("utf-8", errors="replace") yields for a byte
\* that is not part of a well-formed UTF-8 sequence.
REPLACEMENT == "U+FFFD"

\* chr(n) for a byte n as unquote decodes it when it stands alone.
chr(n) == IF n < 128 THEN ASCII[n + 1] ELSE REPLACEMENT

\* ord(c) of an ASCII character.
ord(c) == (CHOOSE i \in 1..128 : ASCII[i] = c) - 1

IsAscii(c) == \E i \in 1..128 : ASCII[i] = c

HexDigits == <<"0", "1", "2", "3", "4", "5", "6", "7", "8", "9",
               "A", "B", "C", "D", "E", "F">>

LowerHex == <<"a", "b", "c", "d", "e", "f">>

IsHex(c) ==
  \/ \E i \in 1..16 : HexDigits[i] = c
  \/ \E i \in 1..6 : LowerHex[i] = c

\* int(c, 16) of one hexadecimal digit.
HexVal(c) ==
  IF \E i \in 1..16 : HexDigits[i] = c
  THEN (CHOOSE i \in 1..16 : HexDigits[i] = c) - 1
  ELSE (CHOOSE i \in 1..6 : LowerHex[i] = c) + 9

(***************************************************************************)
(* str operations                                                          *)
(***************************************************************************)

\* s[i:] (i counted from 1).
Tail_from(s, i) == SubSeq(s, i, Len(s))

\* s.find(c) + 1, or 0 when c does not occur in s.
find(s, c) ==
  IF \E i \in 1..Len(s) : s[i] = c
  THEN CHOOSE i \in 1..Len(s) : s[i] = c /\ \A j \in 1..(i - 1) : s[j] # c
  ELSE 0

\* s.startswith(p)
startswith(s, p) == Len(s) >= Len(p) /\ SubSeq(s, 1, Len(p)) = p

\* s.split(c): the pieces of s between the occurrences of c.
RECURSIVE split(_, _)
split(s, c) ==
  LET i == find(s, c)
  IN IF i = 0 THEN <<s>>
     ELSE <<SubSeq(s, 1, i - 1)>> \o split(Tail_from(s, i + 1), c)

\* "".join(pieces): the pieces one after the other.
RECURSIVE join(_)
join(pieces) ==
  IF Len(pieces) = 0 THEN <<>>
  ELSE IF Len(pieces) = 1 THEN pieces[1]
  ELSE LET m == Len(pieces) \div 2
       IN join(SubSeq(pieces, 1, m)) \o join(SubSeq(pieces, m + 1, Len(pieces)))

\* s.replace("+", " ")
plus_to_space(s) == [i \in 1..Len(s) |-> IF s[i] = "+" THEN " " ELSE s[i]]

\* s.lstrip(chars of code 0..32): urlsplit drops leading C0 controls and spaces.
RECURSIVE lstrip_c0(_)
lstrip_c0(s) ==
  IF s # <<>> /\ IsAscii(s[1]) /\ ord(s[1]) <= 32 THEN lstrip_c0(Tail(s)) ELSE s

\* urlsplit removes every tab, carriage return and line feed from the URL.
remove_unsafe(s) == SelectSeq(s, LAMBDA c : c \notin {"TAB", "CR", "LF"})

(***************************************************************************)
(* urllib.parse, as decode_safelink uses it                                *)
(***************************************************************************)

\* urllib.parse.unquote: every "%" followed by two hexadecimal digits becomes
\* the character of that byte; any other "%" stays.  An escaped byte of 128
\* or more is decoded on its own, as U+FFFD (runs of such bytes, which
\* Python decodes together as UTF-8, are not among the modelled inputs).
\* An escape begins at i when s[i] is "%" and two hexadecimal digits follow
\* (the digits of one escape cannot begin another).
IsEscape(s, i) ==
  /\ i >= 1 /\ i + 2 <= Len(s)
  /\ s[i] = "%" /\ IsHex(s[i + 1]) /\ IsHex(s[i + 2])

unquote(s) ==
  join([i \in 1..Len(s) |->
          IF IsEscape(s, i)
          THEN <<chr(16 * HexVal(s[i + 1]) + HexVal(s[i + 2]))>>
          ELSE IF IsEscape(s, i - 1) \/ IsEscape(s, i - 2) THEN <<>>
          ELSE <<s[i]>>])

\* The characters a URL scheme may consist of (urllib.parse.scheme_chars).
IsSchemeChar(c) ==
  /\ IsAscii(c)
  /\ \/ ord(c) \in 48..57 \/ ord(c) \in 65..90 \/ ord(c) \in 97..122
     \/ c \in {"+", "-", "."}

IsAlpha(c) == IsAscii(c) /\ (ord(c) \in 65..90 \/ ord(c) \in 97..122)

\* The URL with its scheme ("xyz:") removed, when it has one.
strip_scheme(url) ==
  LET i == find(url, ":")
  IN IF /\ i > 1
        /\ IsAlpha(url[1])
        /\ \A j \in 1..(i - 1) : IsSchemeChar(url[j])
     THEN Tail_from(url, i + 1)
     ELSE url

\* The position of the first of "/", "?", "#" in s from position from on,
\* or Len(s) + 1 (urllib.parse._splitnetloc).
netloc_end(s, from) ==
  IF \E i \in from..Len(s) : s[i] \in {"/", "?", "#"}
  THEN CHOOSE i \in from..Len(s) :
         /\ s[i] \in {"/", "?", "#"}
         /\ \A j \in from..(i - 1) : s[j] \notin {"/", "?", "#"}
  ELSE Len(s) + 1

\* urllib.parse.urlparse(url): the query component, or the ValueError
\* urlsplit raises for a network location with a square bracket that is
\* not a bracketed IP literal (no modelled input holds a valid one).
urlparse(safelink_url) ==
  LET cleaned == remove_unsafe(lstrip_c0(safelink_url))
      rest    == strip_scheme(cleaned)
      hasNet  == Len(rest) >= 2 /\ rest[1] = "/" /\ rest[2] = "/"
      e       == IF hasNet THEN netloc_end(rest, 3) ELSE 1
      netloc  == IF hasNet THEN SubSeq(rest, 3, e - 1) ELSE <<>>
      url     == IF hasNet THEN Tail_from(rest, e) ELSE rest
      h       == find(url, "#")
      nofrag  == IF h = 0 THEN url ELSE SubSeq(url, 1, h - 1)
      q       == find(nofrag, "?")
  IN [raises |-> \E i \in 1..Len(netloc) : netloc[i] \in {"[", "]"},
      query  |-> IF q = 0 THEN <<>> ELSE Tail_from(nofrag, q + 1)]

\* One "name=value" field of a query string as parse_qsl reads it: nothing
\* for a field without "=" or with an empty value (keep_blank_values is
\* False), else the pair with "+" turned into a space and both unquoted.
parse_field(name_value) ==
  LET i == find(name_value, "=")
  IN IF i = 0 \/ i = Len(name_value) THEN <<>>
     ELSE << <<unquote(plus_to_space(SubSeq(name_value, 1, i - 1))),
               unquote(plus_to_space(Tail_from(name_value, i + 1)))>> >>

RECURSIVE parse_fields(_)
parse_fields(fields) ==
  IF fields = <<>> THEN <<>>
  ELSE parse_field(Head(fields)) \o parse_fields(Tail(fields))

\* urllib.parse.parse_qs(qs), as the list of (name, value) pairs in the
\* order of the query string, fields separated by "&".
parse_qs(qs) == IF qs = <<>> THEN <<>> ELSE parse_fields(split(qs, "&"))

\* The str "url".
URL_KEY == <<"u", "r", "l">>

\* query_params.get("url", [None])[0]: the first value named url, or None
\* (the empty tuple: no parsed value is empty).
get_url(query_params) ==
  LET hits == SelectSeq(query_params, LAMBDA nv : nv[1] = URL_KEY)
  IN IF hits = <<>> THEN <<>> ELSE hits[1][2]

\* The results of decode_safelink: a str, None, or a raised ValueError.
Str(s) == [tag |-> "str", val |-> s]

None == [tag |-> "None", val |-> <<>>]

ValueError == [tag |-> "ValueError", val |-> <<>>]

\* decode_safelink(safelink_url)
decode_safelink(safelink_url) ==
  LET parsed_url   == urlparse(safelink_url)
      query_params == parse_qs(parsed_url.query)
      original_url == get_url(query_params)
  IN IF parsed_url.raises THEN ValueError
     ELSE IF original_url # <<>> THEN Str(unquote(original_url))
     ELSE None


(***************************************************************************)
(* Program constants                                                       *)
(***************************************************************************)

\* for _ in range(5): the number of OpenClipboard attempts of a write.
OPEN_ATTEMPTS == 5

HTTPS ==
  <<"h", "t", "t", "p", "s", ":", "/", "/">>

SAFELINKS_HOST ==
  <<".", "s", "a", "f", "e", "l", "i", "n", "k", "s", ".", "p", "r", "o",
    "t", "e", "c", "t", "i", "o", "n", ".", "o", "u", "t", "l", "o", "o",
    "k", ".", "c", "o", "m", "/">>

\* The three prefixes run_service passes to str.startswith.
SAFELINK_PREFIXES ==
  { HTTPS \o <<"g", "b", "r", "0", "1">> \o SAFELINKS_HOST,
    HTTPS \o <<"e", "u", "r", "0", "1">> \o SAFELINKS_HOST,
    HTTPS \o <<"n", "a", "m", "0", "2">> \o SAFELINKS_HOST }

\* current_content.startswith((...)) in run_service.
IsSafeLinkShaped(content) == \E p \in SAFELINK_PREFIXES : startswith(content, p)

(***************************************************************************)
(* The clipboard's CF_UNICODETEXT payload                                  *)
(***************************************************************************)

\* The characters above U+FFFF of the model, each with the two code units
\* (high surrogate, low surrogate) UTF-16 writes it as.
SurrogatePairs == { <<"U+1F600", "U+D83D", "U+DE00">> }

\* A code point of the surrogate range, alone in a str: Python allows it in
\* a str and refuses to encode it.
Surrogates ==
  {pr[2] : pr \in SurrogatePairs} \cup {pr[3] : pr \in SurrogatePairs}

\* The UTF-16 code units of one character: two for a character above
\* U+FFFF, one (written as the character) for every other.
utf_16_units(c) ==
  IF \E pr \in SurrogatePairs : pr[1] = c
  THEN LET pr == CHOOSE q \in SurrogatePairs : q[1] = c IN <<pr[2], pr[3]>>
  ELSE <<c>>

\* str.encode("utf-16le") raises UnicodeEncodeError ("surrogates not
\* allowed") on a str holding a surrogate code point.
encodable(s) == \A i \in 1..Len(s) : s[i] \notin Surrogates

\* str.encode("utf-16le"), as a sequence of 16-bit code units.
encode_utf_16le(s) == join([i \in 1..Len(s) |-> utf_16_units(s[i])])

\* text_bytes = (text + "\x00").encode("utf-16le")
text_bytes_of(text) == encode_utf_16le(text \o <<"NUL">>)

\* Code units i and i + 1 are the two units of a character above U+FFFF.
IsPair(units, i) ==
  /\ i >= 1
  /\ i + 1 <= Len(units)
  /\ \E pr \in SurrogatePairs : pr[2] = units[i] /\ pr[3] = units[i + 1]

\* The str of a run of 16-bit wchar_t units: a surrogate pair becomes one
\* character, every other unit (a lone surrogate too) its own code point.
\* A low surrogate that follows a lone high surrogate of the table cannot
\* be the second half of a pair starting one unit earlier, since the unit
\* before it is then a high surrogate, not a low one.
from_wide_char(units) ==
  join([i \in 1..Len(units) |->
          IF IsPair(units, i)
          THEN LET pr == CHOOSE q \in SurrogatePairs :
                           q[2] = units[i] /\ q[3] = units[i + 1]
               IN <<pr[1]>>
          ELSE IF IsPair(units, i - 1) THEN <<>>
          ELSE <<units[i]>>])

\* wstring_at that stops at the null unit and keeps it.
wstring_at_with_terminator(mem) ==
  LET n == find(mem, "NUL")
  IN from_wide_char(IF n = 0 THEN mem ELSE SubSeq(mem, 1, n))

\* ctypes.wstring_at(ptr): the str of the code units before the first null
\* unit.
wstring_at(mem) ==
  LET n == find(mem, "NUL")
  IN from_wide_char(IF n = 0 THEN mem ELSE SubSeq(mem, 1, n - 1))

\* A clipboard holding a CF_UNICODETEXT block with these code units.
TextPayload(mem) == [has |-> TRUE, mem |-> mem]

\* A clipboard without CF_UNICODETEXT data (empty, or holding other formats).
NoText == [has |-> FALSE, mem |-> <<>>]


(***************************************************************************)
(* What other processes put on the clipboard                               *)
(***************************************************************************)

\* Percent-encoding of a URL as a SafeLink carries it: every character but
\* letters, digits and "_", ".", "-", "~" becomes "%XX".
quote(s) ==
  join([i \in 1..Len(s) |->
          IF (IsSchemeChar(s[i]) /\ s[i] # "+") \/ s[i] \in {"_", "~"}
          THEN <<s[i]>>
          ELSE <<"%", HexDigits[(ord(s[i]) \div 16) + 1],
                      HexDigits[(ord(s[i]) % 16) + 1]>>])

EXAMPLE_URL ==
  <<"h", "t", "t", "p", "s", ":", "/", "/", "e", "x", "a", "m", "p", "l",
    "e", ".", "c", "o", "m">>

NOT_A_SAFELINK ==
  <<"h", "t", "t", "p", "s", ":", "/", "/", "n", "o", "t", "a", "s", "a",
    "f", "e", "l", "i", "n", "k", ".", "c", "o", "m", "/", "f", "o", "o">>

URL_PARAM ==
  <<"?", "u", "r", "l", "=">>

DATA_PARAM ==
  <<"?", "d", "a", "t", "a", "=", "x">>

EUR01 == HTTPS \o <<"e", "u", "r", "0", "1">> \o SAFELINKS_HOST

GBR01 == HTTPS \o <<"g", "b", "r", "0", "1">> \o SAFELINKS_HOST

NAM02 == HTTPS \o <<"n", "a", "m", "0", "2">> \o SAFELINKS_HOST

\* A SafeLink wrapping https://example.com.
SAFELINK == EUR01 \o URL_PARAM \o quote(EXAMPLE_URL)

\* A SafeLink-shaped URL without a url parameter.
SAFELINK_NO_URL == GBR01 \o DATA_PARAM

\* A SafeLink whose target is itself a SafeLink.
SAFELINK_NESTED == NAM02 \o URL_PARAM \o quote(SAFELINK)

\* A SafeLink whose target is a SafeLink followed by an escaped null
\* character.
SAFELINK_NUL == GBR01 \o URL_PARAM \o quote(SAFELINK) \o <<"%", "0", "0">>

\* The texts other processes copy to the clipboard.
ExternalTexts == {NOT_A_SAFELINK, SAFELINK, SAFELINK_NO_URL, SAFELINK_NESTED}

\* The clipboard contents other processes produce: one of the texts, or
\* data without a Unicode-text format.
ExternalPayloads ==
  {TextPayload(text_bytes_of(t)) : t \in ExternalTexts} \cup {NoText}

\* The texts other processes copy in a session where the SafeLinks wrap
\* SafeLinks: one whose target is a plain SafeLink, one whose target ends in
\* an escaped null character.
WrappedTexts == {SAFELINK_NESTED, SAFELINK_NUL}

WrappedPayloads == {TextPayload(text_bytes_of(t)) : t \in WrappedTexts}


(***************************************************************************)
(* State                                                                   *)
(***************************************************************************)

VARIABLES
  pc,              \* where the program is (the next call it makes)
  owner,           \* who has the clipboard open: "none", "self", "other"
  clip,            \* the clipboard's Unicode-text payload
  last_content,    \* run_service: last_content
  current_content, \* run_service: current_content
  decoded_url,     \* run_service: decoded_url (None before the first decode)
  text,            \* get_clipboard_text: text; set_clipboard_text: text
  attempt,         \* set_clipboard_text: failed passes of the retry loop
  h_global_mem,    \* set_clipboard_text: h_global_mem is a handle (not None)
  block,           \* the block of this write: "none", "allocated" (owned by
                   \* the program), "os" (owned by the clipboard), "freed"
  block_mem,       \* the code units copied into the block
  exc,             \* the exception being raised through the finally clauses
  calls,           \* the calls made so far in this tick, in order
  tick_last,       \* last_content when this tick began
  tick_clip,       \* the clipboard when this tick began
  interfered       \* another process changed the clipboard during this tick

vars ==
  <<pc, owner, clip, last_content, current_content, decoded_url, text,
    attempt, h_global_mem, block, block_mem, exc, calls, tick_last,
    tick_clip, interfered>>

\* The variables of run_service and of the two clipboard functions.
locals ==
  <<last_content, current_content, decoded_url, text, attempt, h_global_mem,
    block, block_mem, exc>>

\* What is recorded at the start of a tick.
tick_vars == <<tick_last, tick_clip>>

\* The call returns.
Call(name) == calls' = Append(calls, name)

\* The call returns failure (FALSE or NULL).
Fail(name) == calls' = calls \o <<name, "failed">>

\* The call faults: ctypes raises OSError (an access violation).
Fault(name) == calls' = calls \o <<name, "OSError">>

\* The program counters at which the process is inside time.sleep.
SleepPcs == {"backoff_sleep", "tick_sleep"}

\* The program has left run_service: by the exception of a failed write,
\* or by KeyboardInterrupt.
EndPcs == {"raised", "stopped"}

\* run_service starts while the clipboard holds one of the payloads.
StartWith(payloads) ==
  /\ pc = "get_open"
  /\ owner \in {"none", "other"}
  /\ clip \in payloads
  /\ last_content = <<>>
  /\ current_content = <<>>
  /\ decoded_url = None
  /\ text = <<>>
  /\ attempt = 0
  /\ h_global_mem = FALSE
  /\ block = "none"
  /\ block_mem = <<>>
  /\ exc = "none"
  /\ calls = <<"get_clipboard_text">>
  /\ tick_last = <<>>
  /\ tick_clip = clip
  /\ interfered = FALSE

Init == StartWith(ExternalPayloads)

(***************************************************************************)
(* get_clipboard_text                                                      *)
(*                                                                         *)
(* The except clause of the function catches the OSError that ctypes       *)
(* raises for an access violation.  The calls that hand out or take a      *)
(* memory handle or pointer (GetClipboardData, GlobalLock, wstring_at,     *)
(* GlobalUnlock) may fault; OpenClipboard(None) and CloseClipboard() take  *)
(* no memory argument and return TRUE or FALSE.                            *)
(***************************************************************************)

\* text = ""; if OpenClipboard(None): one attempt; the gate admits one
\* process.  When the attempt fails the function returns text, which
\* run_service assigns to current_content.
get_OpenClipboard ==
  /\ pc = "get_open"
  /\ text' = <<>>
  /\ IF owner = "none"
     THEN /\ Call("OpenClipboard")
          /\ owner' = "self"
          /\ pc' = "get_data"
          /\ UNCHANGED current_content
     ELSE /\ calls' = calls \o <<"OpenClipboard", "failed", "return">>
          /\ owner' = owner
          /\ pc' = "compare"
          /\ current_content' = <<>>
  /\ UNCHANGED <<clip, last_content, decoded_url, attempt, h_global_mem,
                 block, block_mem, exc, tick_vars, interfered>>

\* h_clip_mem = GetClipboardData(CF_UNICODETEXT); if h_clip_mem: ...
\* The call hands out a handle to memory and may fault (OSError), which
\* leaves the inner blocks for the finally clause that closes the clipboard.
get_GetClipboardData ==
  /\ pc = "get_data"
  /\ \/ /\ clip.has
        /\ Call("GetClipboardData")
        /\ pc' = "get_lock"
     \/ /\ ~clip.has
        /\ Fail("GetClipboardData")
        /\ pc' = "get_close"
     \/ /\ Fault("GetClipboardData")
        /\ pc' = "get_close"
  /\ UNCHANGED <<owner, clip, locals, tick_vars, interfered>>

\* locked_mem = GlobalLock(h_clip_mem); if locked_mem: ...
\* The lock succeeds, fails (NULL), or faults.
get_GlobalLock ==
  /\ pc = "get_lock"
  /\ \/ /\ Call("GlobalLock")
        /\ pc' = "get_wstring"
     \/ /\ Fail("GlobalLock")
        /\ pc' = "get_close"
     \/ /\ Fault("GlobalLock")
        /\ pc' = "get_close"
  /\ UNCHANGED <<owner, clip, locals, tick_vars, interfered>>

\* get_wstring_at with the text assigned although the read faulted.
get_wstring_at_keeps_partial ==
  /\ pc = "get_wstring"
  /\ \/ /\ Call("wstring_at")
        /\ text' = wstring_at(clip.mem)
     \/ /\ Fault("wstring_at")
        /\ text' = wstring_at(clip.mem)
  /\ pc' = "get_unlock"
  /\ UNCHANGED <<owner, clip, last_content, current_content, decoded_url,
                 attempt, h_global_mem, block, block_mem, exc, tick_vars,
                 interfered>>

\* text = ctypes.wstring_at(locked_mem), or an access violation while
\* reading: text keeps its value and the finally clause unlocks.
get_wstring_at ==
  /\ pc = "get_wstring"
  /\ \/ /\ Call("wstring_at")
        /\ text' = wstring_at(clip.mem)
     \/ /\ Fault("wstring_at")
        /\ text' = text
  /\ pc' = "get_unlock"
  /\ UNCHANGED <<owner, clip, last_content, current_content, decoded_url,
                 attempt, h_global_mem, block, block_mem, exc, tick_vars,
                 interfered>>

\* finally: GlobalUnlock(h_clip_mem).  Whether it returns or faults, the
\* outer finally clause runs next and text is what it was.
get_GlobalUnlock ==
  /\ pc = "get_unlock"
  /\ Call("GlobalUnlock") \/ Fault("GlobalUnlock")
  /\ pc' = "get_close"
  /\ UNCHANGED <<owner, clip, locals, tick_vars, interfered>>

\* get_CloseClipboard without the CloseClipboard call.
get_CloseClipboard_skipped ==
  /\ pc = "get_close"
  /\ Call("return")
  /\ current_content' = text
  /\ pc' = "compare"
  /\ UNCHANGED <<owner, clip, last_content, decoded_url, text, attempt,
                 h_global_mem, block, block_mem, exc, tick_vars, interfered>>

\* finally: CloseClipboard(); except (OSError, ValueError): pass;
\* return text, which run_service assigns to current_content.
get_CloseClipboard ==
  /\ pc = "get_close"
  /\ calls' = calls \o <<"CloseClipboard", "return">>
  /\ owner' = "none"
  /\ current_content' = text
  /\ pc' = "compare"
  /\ UNCHANGED <<clip, last_content, decoded_url, text, attempt,
                 h_global_mem, block, block_mem, exc, tick_vars, interfered>>


(***************************************************************************)
(* run_service                                                             *)
(***************************************************************************)

\* should_process without the prefix test.
should_process_any_change == current_content # last_content

\* should_process without the comparison with last_content.
should_process_prefix_only == IsSafeLinkShaped(current_content)

\* The condition of the if statement of the loop.
should_process ==
  current_content # last_content /\ IsSafeLinkShaped(current_content)

\* recorded without the fallback to the text that was read.
recorded_decoded_only(d) == d.val

\* decoded_url or current_content, for the value d of decoded_url: the
\* decoded text when there is one (None and "" are falsy).
recorded(d) ==
  IF d.tag = "str" /\ d.val # <<>> THEN d.val ELSE current_content

\* if current_content != last_content and current_content.startswith(...):
\*     decoded_url = decode_safelink(current_content)
\*     if decoded_url: set_clipboard_text(decoded_url) ...
\*     last_content = decoded_url or current_content
\* time.sleep(0.5)
\* The step ends where the next call is made: inside set_clipboard_text
\* (whose first lines encode the text, which raises UnicodeEncodeError on a
\* text that cannot be encoded), or in the sleep that ends the tick.
compare ==
  /\ pc = "compare"
  /\ IF should_process
     THEN LET d == decode_safelink(current_content)
          IN /\ decoded_url' = d
             /\ IF d = ValueError
                THEN /\ calls' = calls \o <<"decode_safelink", "ValueError">>
                     /\ pc' = "raised"
                     /\ exc' = "ValueError"
                     /\ UNCHANGED <<last_content, text>>
                ELSE IF d.tag = "str" /\ d.val # <<>>
                THEN /\ text' = d.val
                     /\ UNCHANGED last_content
                     /\ IF encodable(d.val)
                        THEN /\ calls' = calls \o <<"decode_safelink",
                                                    "set_clipboard_text">>
                             /\ pc' = "set_open"
                             /\ exc' = "none"
                        ELSE /\ calls' = calls \o <<"decode_safelink",
                                                    "set_clipboard_text",
                                                    "raise UnicodeEncodeError">>
                             /\ pc' = "raised"
                             /\ exc' = "UnicodeEncodeError"
                ELSE /\ calls' = calls \o <<"decode_safelink", "sleep(0.5)">>
                     /\ pc' = "tick_sleep"
                     /\ exc' = "none"
                     /\ last_content' = recorded(d)
                     /\ UNCHANGED text
     ELSE /\ Call("sleep(0.5)")
          /\ pc' = "tick_sleep"
          /\ exc' = "none"
          /\ UNCHANGED <<decoded_url, last_content, text>>
  /\ attempt' = 0
  /\ h_global_mem' = FALSE
  /\ block' = "none"
  /\ block_mem' = <<>>
  /\ UNCHANGED <<owner, clip, current_content, tick_vars, interfered>>

\* decoded_or_current recording what was read instead of what was written.
decoded_or_current_raw == current_content

\* decoded_url or current_content, at the end of a tick that called
\* set_clipboard_text.
decoded_or_current == recorded(decoded_url)

\* time.sleep(0.5) returns and the loop calls get_clipboard_text again.
next_tick ==
  /\ pc = "tick_sleep"
  /\ pc' = "get_open"
  /\ calls' = <<"get_clipboard_text">>
  /\ tick_last' = last_content
  /\ tick_clip' = clip
  /\ interfered' = FALSE
  /\ UNCHANGED <<owner, clip, locals>>

\* except KeyboardInterrupt: Ctrl+C while the process sleeps (where it
\* spends its time) ends run_service.
KeyboardInterrupt ==
  /\ pc \in SleepPcs
  /\ pc' = "stopped"
  /\ Call("KeyboardInterrupt")
  /\ UNCHANGED <<owner, clip, locals, tick_vars, interfered>>


(***************************************************************************)
(* set_clipboard_text                                                      *)
(***************************************************************************)

\* for _ in range(5): if OpenClipboard(None): break; time.sleep(0.1)
\* An attempt that fails puts the process to sleep.
set_OpenClipboard ==
  /\ pc = "set_open"
  /\ IF owner = "none"
     THEN /\ Call("OpenClipboard")
          /\ owner' = "self"
          /\ pc' = "set_empty"
     ELSE /\ calls' = calls \o <<"OpenClipboard", "failed", "sleep(0.1)">>
          /\ owner' = owner
          /\ pc' = "backoff_sleep"
  /\ UNCHANGED <<clip, locals, tick_vars, interfered>>

\* backoff_wake with the loop running one pass too many.
backoff_wake_one_more ==
  /\ pc = "backoff_sleep"
  /\ attempt' = attempt + 1
  /\ IF attempt < OPEN_ATTEMPTS
     THEN pc' = "set_open" /\ exc' = exc /\ calls' = calls
     ELSE pc' = "raised" /\ exc' = "LOCKED" /\ Call("raise LOCKED")
  /\ UNCHANGED <<owner, clip, last_content, current_content, decoded_url,
                 text, h_global_mem, block, block_mem, tick_vars, interfered>>

\* time.sleep(0.1) returns: the next pass of the loop, or, when the loop
\* has run out, its else clause: raise ClipboardError(LOCKED).
backoff_wake ==
  /\ pc = "backoff_sleep"
  /\ attempt' = attempt + 1
  /\ IF attempt + 1 < OPEN_ATTEMPTS
     THEN pc' = "set_open" /\ exc' = exc /\ calls' = calls
     ELSE pc' = "raised" /\ exc' = "LOCKED" /\ Call("raise LOCKED")
  /\ UNCHANGED <<owner, clip, last_content, current_content, decoded_url,
                 text, h_global_mem, block, block_mem, tick_vars, interfered>>

\* set_EmptyClipboard with the raise outside the try block that closes.
set_EmptyClipboard_unscoped ==
  /\ pc = "set_empty"
  /\ \/ /\ Call("EmptyClipboard")
        /\ clip' = NoText
        /\ pc' = "set_alloc"
        /\ exc' = exc
     \/ /\ calls' = calls \o <<"EmptyClipboard", "failed", "raise EMPTY_FAILED">>
        /\ clip' = clip
        /\ pc' = "raised"
        /\ exc' = "EMPTY_FAILED"
  /\ UNCHANGED <<owner, last_content, current_content, decoded_url, text,
                 attempt, h_global_mem, block, block_mem, tick_vars,
                 interfered>>

\* set_EmptyClipboard with a call that succeeds and leaves the content.
set_EmptyClipboard_keeps_content ==
  /\ pc = "set_empty"
  /\ clip' = clip
  /\ \/ /\ Call("EmptyClipboard")
        /\ pc' = "set_alloc"
        /\ exc' = exc
     \/ /\ Fail("EmptyClipboard")
        /\ pc' = "set_close"
        /\ exc' = "EMPTY_FAILED"
  /\ UNCHANGED <<owner, last_content, current_content, decoded_url, text,
                 attempt, h_global_mem, block, block_mem, tick_vars,
                 interfered>>

\* if not EmptyClipboard(): raise ClipboardError(EMPTY_FAILED)
set_EmptyClipboard ==
  /\ pc = "set_empty"
  /\ \/ /\ Call("EmptyClipboard")
        /\ clip' = NoText
        /\ pc' = "set_alloc"
        /\ exc' = exc
     \/ /\ Fail("EmptyClipboard")
        /\ clip' = clip
        /\ pc' = "set_close"
        /\ exc' = "EMPTY_FAILED"
  /\ UNCHANGED <<owner, last_content, current_content, decoded_url, text,
                 attempt, h_global_mem, block, block_mem, tick_vars,
                 interfered>>

\* h_global_mem = GlobalAlloc(GMEM_MOVEABLE, text_size)
\* if not h_global_mem: raise MemoryAllocationError(ALLOC_FAILED)
set_GlobalAlloc ==
  /\ pc = "set_alloc"
  /\ \/ /\ Call("GlobalAlloc")
        /\ h_global_mem' = TRUE
        /\ block' = "allocated"
        /\ pc' = "set_lock"
        /\ exc' = exc
     \/ /\ Fail("GlobalAlloc")
        /\ h_global_mem' = FALSE
        /\ block' = block
        /\ pc' = "set_close"
        /\ exc' = "ALLOC_FAILED"
  /\ UNCHANGED <<owner, clip, last_content, current_content, decoded_url,
                 text, attempt, block_mem, tick_vars, interfered>>

\* GlobalFree(h) of a block the program owns releases it.  Freeing a block
\* that is already freed, or that the clipboard owns, is an error of the
\* caller: the call returns, or it faults (OSError).
GlobalFree_outcomes(b) ==
  IF b = "allocated" THEN {[block |-> "freed", fault |-> FALSE]}
  ELSE {[block |-> b, fault |-> FALSE], [block |-> b, fault |-> TRUE]}

\* lp_mem = GlobalLock(h_global_mem)
\* if not lp_mem: GlobalFree(h_global_mem); raise ...(LOCK_FAILED)
\* h_global_mem keeps the handle when the lock fails.
set_GlobalLock ==
  /\ pc = "set_lock"
  /\ \/ /\ Call("GlobalLock")
        /\ pc' = "set_copy"
        /\ UNCHANGED <<block, exc>>
     \/ \E o \in GlobalFree_outcomes(block) :
          /\ block' = o.block
          /\ exc' = IF o.fault THEN "OSError" ELSE "LOCK_FAILED"
          /\ calls' = calls \o <<"GlobalLock", "failed", "GlobalFree">>
          /\ pc' = "set_finally"
  /\ UNCHANGED <<owner, clip, last_content, current_content, decoded_url,
                 text, attempt, h_global_mem, block_mem, tick_vars,
                 interfered>>

\* ctypes.memmove(lp_mem, text_bytes, text_size); GlobalUnlock(h_global_mem)
set_memmove ==
  /\ pc = "set_copy"
  /\ calls' = calls \o <<"memmove", "GlobalUnlock">>
  /\ block_mem' = text_bytes_of(text)
  /\ pc' = "set_data"
  /\ UNCHANGED <<owner, clip, last_content, current_content, decoded_url,
                 text, attempt, h_global_mem, block, exc, tick_vars,
                 interfered>>

\* set_SetClipboardData without the line h_global_mem = None.
set_SetClipboardData_keeps_handle ==
  /\ pc = "set_data"
  /\ \/ /\ Call("SetClipboardData")
        /\ clip' = TextPayload(block_mem)
        /\ block' = "os"
        /\ exc' = exc
     \/ /\ Fail("SetClipboardData")
        /\ exc' = "SET_FAILED"
        /\ UNCHANGED <<clip, block>>
  /\ pc' = "set_finally"
  /\ UNCHANGED <<owner, last_content, current_content, decoded_url, text,
                 attempt, h_global_mem, block_mem, tick_vars, interfered>>

\* if not SetClipboardData(CF_UNICODETEXT, h_global_mem): raise ...(SET_FAILED)
\* h_global_mem = None        (the clipboard owns the block from here on)
set_SetClipboardData ==
  /\ pc = "set_data"
  /\ \/ /\ Call("SetClipboardData")
        /\ clip' = TextPayload(block_mem)
        /\ block' = "os"
        /\ h_global_mem' = FALSE
        /\ exc' = exc
     \/ /\ Fail("SetClipboardData")
        /\ exc' = "SET_FAILED"
        /\ UNCHANGED <<clip, block, h_global_mem>>
  /\ pc' = "set_finally"
  /\ UNCHANGED <<owner, last_content, current_content, decoded_url, text,
                 attempt, block_mem, tick_vars, interfered>>

\* set_finally without the GlobalFree.
set_finally_leaks ==
  /\ pc = "set_finally"
  /\ pc' = "set_close"
  /\ UNCHANGED <<owner, clip, locals, calls, tick_vars, interfered>>

\* finally: if h_global_mem: GlobalFree(h_global_mem)
set_finally ==
  /\ pc = "set_finally"
  /\ IF h_global_mem
     THEN \E o \in GlobalFree_outcomes(block) :
            /\ block' = o.block
            /\ exc' = IF o.fault THEN "OSError" ELSE exc
            /\ Call("GlobalFree")
     ELSE UNCHANGED <<block, exc, calls>>
  /\ pc' = "set_close"
  /\ UNCHANGED <<owner, clip, last_content, current_content, decoded_url,
                 text, attempt, h_global_mem, block_mem, tick_vars,
                 interfered>>

\* set_CloseClipboard with run_service catching the exception of the write
\* and going on to the next tick.
set_CloseClipboard_caught ==
  /\ pc = "set_close"
  /\ owner' = "none"
  /\ calls' = calls \o <<"CloseClipboard", "return", "sleep(0.5)">>
  /\ last_content' = decoded_or_current
  /\ pc' = "tick_sleep"
  /\ UNCHANGED <<clip, current_content, decoded_url, text, attempt,
                 h_global_mem, block, block_mem, exc, tick_vars, interfered>>

\* finally: CloseClipboard().  Then the exception leaves the function and
\* run_service, which catches none of the exceptions of a write; or the
\* function returns and run_service goes on: print(...),
\* last_content = decoded_url or current_content, time.sleep(0.5).
set_CloseClipboard ==
  /\ pc = "set_close"
  /\ owner' = "none"
  /\ IF exc = "none"
     THEN /\ calls' = calls \o <<"CloseClipboard", "return", "sleep(0.5)">>
          /\ last_content' = decoded_or_current
          /\ pc' = "tick_sleep"
     ELSE /\ calls' = calls \o <<"CloseClipboard", "raise " \o exc>>
          /\ pc' = "raised"
          /\ UNCHANGED last_content
  /\ UNCHANGED <<clip, current_content, decoded_url, text, attempt,
                 h_global_mem, block, block_mem, exc, tick_vars, interfered>>

(***************************************************************************)
(* The other processes, for as long as the program runs                    *)
(***************************************************************************)

\* Another process opens the clipboard.
other_OpenClipboard ==
  /\ pc \notin EndPcs
  /\ owner = "none"
  /\ owner' = "other"
  /\ UNCHANGED <<pc, clip, locals, calls, tick_vars, interfered>>

\* The process that has the clipboard open replaces its content by one of
\* the payloads.
other_places(payloads) ==
  /\ pc \notin EndPcs
  /\ owner = "other"
  /\ \E p \in payloads : clip' = p
  /\ interfered' = TRUE
  /\ UNCHANGED <<pc, owner, locals, calls, tick_vars>>

other_SetClipboardData == other_places(ExternalPayloads)

other_SetClipboardData_wrapped == other_places(WrappedPayloads)

\* The process that has the clipboard open closes it.
other_CloseClipboard ==
  /\ pc \notin EndPcs
  /\ owner = "other"
  /\ owner' = "none"
  /\ UNCHANGED <<pc, clip, locals, calls, tick_vars, interfered>>

(***************************************************************************)
(* The specification                                                       *)
(***************************************************************************)

Next ==
  \/ get_OpenClipboard
  \/ get_GetClipboardData
  \/ get_GlobalLock
  \/ get_wstring_at
  \/ get_GlobalUnlock
  \/ get_CloseClipboard
  \/ compare
  \/ next_tick
  \/ KeyboardInterrupt
  \/ set_OpenClipboard
  \/ backoff_wake
  \/ set_EmptyClipboard
  \/ set_GlobalAlloc
  \/ set_GlobalLock
  \/ set_memmove
  \/ set_SetClipboardData
  \/ set_finally
  \/ set_CloseClipboard
  \/ other_OpenClipboard
  \/ other_SetClipboardData
  \/ other_CloseClipboard

Spec == Init /\ [][Next]_vars

\* The same program in a session where the other processes copy SafeLinks
\* that wrap SafeLinks.
WrappedInit == StartWith(WrappedPayloads)

WrappedNext ==
  \/ get_OpenClipboard
  \/ get_GetClipboardData
  \/ get_GlobalLock
  \/ get_wstring_at
  \/ get_GlobalUnlock
  \/ get_CloseClipboard
  \/ compare
  \/ next_tick
  \/ KeyboardInterrupt
  \/ set_OpenClipboard
  \/ backoff_wake
  \/ set_EmptyClipboard
  \/ set_GlobalAlloc
  \/ set_GlobalLock
  \/ set_memmove
  \/ set_SetClipboardData
  \/ set_finally
  \/ set_CloseClipboard
  \/ other_OpenClipboard
  \/ other_SetClipboardData_wrapped
  \/ other_CloseClipboard

WrappedSpec == WrappedInit /\ [][WrappedNext]_vars


(***************************************************************************)
(* The functions called on their own                                       *)
(*                                                                         *)
(* decode_safelink is called on a URL, or set_clipboard_text on a text and *)
(* then get_clipboard_text, in a session where no other process uses the   *)
(* clipboard.  The arguments come from bounded sets.                       *)
(***************************************************************************)

\* The most fields a query string of DecoderInputs has.
MaxFields == 2

\* The most characters a text of ClipboardInputs has.
MaxTextLen == 3

\* A target whose path holds an escaped space.
ESCAPED_URL == EXAMPLE_URL \o <<"/", "a", "%", "2", "0", "b">>

\* A target with a query string of its own.
QUERY_URL ==
  EXAMPLE_URL \o <<"/", "p", "a", "t", "h", "?", "a", "=", "1", "&", "b",
                   "=", "2">>

\* The targets wrapped into SafeLinks.
Targets == {EXAMPLE_URL, QUERY_URL, ESCAPED_URL}

\* The SafeLink Outlook makes of a target: the target, percent-encoded, as
\* the url parameter.
MakeSafeLink(X) == EUR01 \o URL_PARAM \o quote(X)

\* The fields query strings are made of.
QueryFields ==
  { <<"u", "r", "l", "=">>,
    <<"u", "r", "l", "=", "b">>,
    <<"u", "r", "l", "=", "c", "%", "2", "0", "d">>,
    <<"u", "r", "l", "=", "%", "2", "5", "4", "1">>,
    <<"a", "=", "1">> }

\* What comes before the query string: nothing, a SafeLinks host, or a
\* network location with an unmatched bracket.
Bases == { <<>>, EUR01 \o <<"/">>, <<"/", "/", "[">> }

\* field & field & ...
RECURSIVE join_fields(_)
join_fields(fields) ==
  IF Len(fields) = 1 THEN fields[1]
  ELSE fields[1] \o <<"&">> \o join_fields(Tail(fields))

\* The query strings of up to MaxFields fields.
Queries ==
  { join_fields(fs) : fs \in UNION {[1..n -> QueryFields] : n \in 1..MaxFields} }

\* The URLs decode_safelink is called on.
DecoderInputs ==
  {MakeSafeLink(X) : X \in Targets}
    \cup {b \o <<"?">> \o q : b \in Bases, q \in Queries}
    \cup {NOT_A_SAFELINK, <<>>}

\* The characters of the texts written to the clipboard: a letter, the
\* null character, a letter outside ASCII, a character above U+FFFF, and a
\* lone surrogate.
ClipboardChars == {"a", "NUL", "U+00E9", "U+1F600", "U+D83D"}

\* The texts set_clipboard_text is called on.
ClipboardInputs ==
  UNION {[1..n -> ClipboardChars] : n \in 0..MaxTextLen}

CallInputs == DecoderInputs \cup ClipboardInputs

\* The program is about to call one of the functions on the argument text.
CallInit ==
  /\ pc = "call"
  /\ text \in CallInputs
  /\ owner = "none"
  /\ clip = NoText
  /\ last_content = <<>>
  /\ current_content = <<>>
  /\ decoded_url = None
  /\ attempt = 0
  /\ h_global_mem = FALSE
  /\ block = "none"
  /\ block_mem = <<>>
  /\ exc = "none"
  /\ calls = <<>>
  /\ tick_last = <<>>
  /\ tick_clip = clip
  /\ interfered = FALSE

\* decoded_url = decode_safelink(safelink_url)
call_decode_safelink ==
  /\ pc = "call"
  /\ LET d == decode_safelink(text)
     IN /\ decoded_url' = d
        /\ IF d = ValueError
           THEN /\ calls' = <<"decode_safelink", "ValueError">>
                /\ pc' = "raised"
                /\ exc' = "ValueError"
           ELSE /\ calls' = <<"decode_safelink", "return">>
                /\ pc' = "returned"
                /\ exc' = "none"
  /\ UNCHANGED <<owner, clip, last_content, current_content, text, attempt,
                 h_global_mem, block, block_mem, tick_vars, interfered>>

\* set_clipboard_text(decoded_url), for a decoded_url that is the argument
\* text: the function encodes the text and goes on to open the clipboard.
call_set_clipboard_text ==
  /\ pc = "call"
  /\ decoded_url' = Str(text)
  /\ IF encodable(text)
     THEN /\ calls' = <<"set_clipboard_text">>
          /\ pc' = "set_open"
          /\ exc' = "none"
     ELSE /\ calls' = <<"set_clipboard_text", "raise UnicodeEncodeError">>
          /\ pc' = "raised"
          /\ exc' = "UnicodeEncodeError"
  /\ UNCHANGED <<owner, clip, last_content, current_content, text, attempt,
                 h_global_mem, block, block_mem, tick_vars, interfered>>

\* The calls of the functions, the steps of set_clipboard_text, and the
\* steps of the get_clipboard_text that follows a write.  No other process
\* holds the clipboard, so OpenClipboard succeeds at the first attempt.
CallNext ==
  \/ call_decode_safelink
  \/ call_set_clipboard_text
  \/ set_OpenClipboard
  \/ set_EmptyClipboard
  \/ set_GlobalAlloc
  \/ set_GlobalLock
  \/ set_memmove
  \/ set_SetClipboardData
  \/ set_finally
  \/ set_CloseClipboard
  \/ next_tick
  \/ get_OpenClipboard
  \/ get_GetClipboardData
  \/ get_GlobalLock
  \/ get_wstring_at
  \/ get_GlobalUnlock
  \/ get_CloseClipboard

CallSpec == CallInit /\ [][CallNext]_vars


(***************************************************************************)
(* Reading the record of calls                                             *)
(***************************************************************************)

\* How often name occurs in a sequence of calls.
Count(seq, name) == Cardinality({i \in 1..Len(seq) : seq[i] = name})

\* How many of the calls of name failed.
Failures(seq, name) ==
  Cardinality({i \in 1..(Len(seq) - 1) :
                 seq[i] = name /\ seq[i + 1] = "failed"})

\* The calls of this tick's get_clipboard_text: up to its return.
GetCalls ==
  LET r == find(calls, "return")
  IN IF r = 0 THEN calls ELSE SubSeq(calls, 1, r)

\* The calls of this tick's set_clipboard_text, if the tick has one.
SetCalls ==
  LET b == find(calls, "set_clipboard_text")
  IN IF b = 0 THEN <<>> ELSE Tail_from(calls, b)

\* The program is inside get_clipboard_text / inside set_clipboard_text.
GetPcs == {"get_open", "get_data", "get_lock", "get_wstring", "get_unlock",
           "get_close"}

SetPcs == {"set_open", "backoff_sleep", "set_empty", "set_alloc",
           "set_lock", "set_copy", "set_data", "set_finally", "set_close"}

\* The position of the last OpenClipboard call (0 when there is none).
LastOpen(seq) ==
  IF Count(seq, "OpenClipboard") = 0 THEN 0
  ELSE CHOOSE i \in 1..Len(seq) :
         /\ seq[i] = "OpenClipboard"
         /\ \A j \in (i + 1)..Len(seq) : seq[j] # "OpenClipboard"

\* OpenClipboard calls that succeeded, and CloseClipboard calls.
Opened(seq) == Count(seq, "OpenClipboard") - Failures(seq, "OpenClipboard")

Closed(seq) == Count(seq, "CloseClipboard")

\* The write of this tick has ended with its exception.
SetRaised == pc = "raised" /\ SetCalls # <<>>

(***************************************************************************)
(* The claims                                                              *)
(***************************************************************************)

\* C1: when GlobalAlloc succeeds and GlobalLock of the block fails, the
\* write frees the block exactly once and fails with LOCK_FAILED.
C1_LockFailureFreesOnce ==
  (SetRaised /\ Failures(SetCalls, "GlobalLock") = 1)
    => /\ Count(SetCalls, "GlobalFree") = 1
       /\ exc = "LOCK_FAILED"

\* C2: once SetClipboardData has succeeded the block belongs to the
\* clipboard and the program never frees it, during the call or after it.
C2_NoFreeAfterHandOver ==
  /\ block = "os" => Count(calls, "GlobalFree") = 0
  /\ (SetCalls # <<>> /\ Count(SetCalls, "SetClipboardData") = 1
        /\ Failures(SetCalls, "SetClipboardData") = 0)
       => block = "os" /\ Count(SetCalls, "GlobalFree") = 0

C2_Witness ==
  /\ pc = "tick_sleep"
  /\ block = "os"
  /\ Count(SetCalls, "SetClipboardData") = 1
  /\ clip = TextPayload(text_bytes_of(last_content))

\* C3: when allocation and lock succeed and SetClipboardData fails, the
\* block is freed exactly once and the write fails with SET_FAILED.
C3_SetFailureFreesOnce ==
  (SetRaised /\ Failures(SetCalls, "SetClipboardData") = 1)
    => /\ Count(SetCalls, "GlobalFree") = 1
       /\ block = "freed"
       /\ exc = "SET_FAILED"

C3_Witness ==
  /\ SetRaised
  /\ Failures(SetCalls, "SetClipboardData") = 1
  /\ Failures(SetCalls, "GlobalAlloc") = 0
  /\ Failures(SetCalls, "GlobalLock") = 0

\* C4: in a read and in a write, CloseClipboard is called exactly once when
\* OpenClipboard succeeded, before the operation returns or fails, and is
\* never called when no open succeeded; the program has the clipboard open
\* only inside an operation, between its open and its close.
C4_ClosedOnEveryExit ==
  /\ \A seq \in {GetCalls, SetCalls} :
       Closed(seq) <= Opened(seq) /\ Opened(seq) <= 1
  /\ pc \notin GetPcs => Closed(GetCalls) = Opened(GetCalls)
  /\ pc \notin (GetPcs \cup SetPcs) =>
       Closed(SetCalls) = Opened(SetCalls) /\ owner # "self"
  /\ (pc \in GetPcs) => (owner = "self" <=>
                           Opened(GetCalls) = 1 /\ Closed(GetCalls) = 0)
  /\ (pc \in SetPcs) => (owner = "self" <=>
                           Opened(SetCalls) = 1 /\ Closed(SetCalls) = 0)

C4_Witness ==
  /\ SetRaised
  /\ exc = "EMPTY_FAILED"
  /\ Opened(GetCalls) = 1 /\ Closed(GetCalls) = 1
  /\ Opened(SetCalls) = 1 /\ Closed(SetCalls) = 1
  /\ owner # "self"

\* C5: a write attempts OpenClipboard at most 5 times, stops at the first
\* success, sleeps 100 ms after each failed attempt, and fails with LOCKED
\* exactly when all 5 attempts failed, having then called none of
\* EmptyClipboard, GlobalAlloc, SetClipboardData, CloseClipboard.
C5_BoundedOpenRetry ==
  LET opens  == Count(SetCalls, "OpenClipboard")
      failed == Failures(SetCalls, "OpenClipboard")
  IN /\ opens <= 5
     /\ opens - failed <= 1
     /\ opens - failed = 1 =>
          \/ LastOpen(SetCalls) = Len(SetCalls)
          \/ SetCalls[LastOpen(SetCalls) + 1] # "failed"
     /\ Count(SetCalls, "sleep(0.1)") = failed
     /\ SetRaised => (exc = "LOCKED" <=> failed = 5)
     /\ (failed = 5 /\ pc # "backoff_sleep") => pc \in EndPcs
     /\ (SetRaised /\ exc = "LOCKED") =>
          \A name \in {"EmptyClipboard", "GlobalAlloc", "SetClipboardData",
                       "CloseClipboard"} : Count(SetCalls, name) = 0

C5_Witness ==
  /\ SetRaised
  /\ exc = "LOCKED"
  /\ Count(SetCalls, "OpenClipboard") = 5
  /\ Count(SetCalls, "sleep(0.1)") = 5

\* C6: whenever the process sleeps (the 100 ms backoff of a write, the
\* 500 ms sleep of a tick) it does not have the clipboard open.
C6_NotOpenAcrossSleep == pc \in SleepPcs => owner # "self"

C6_Witness ==
  /\ pc = "backoff_sleep"
  /\ owner = "other"
  /\ Opened(GetCalls) = 1


\* The read of this tick has returned.
TickRead == pc \notin GetPcs

\* The read of this tick raised OSError in one of its calls.
GetFaulted == Count(GetCalls, "OSError") > 0

\* The read of this tick copied the text out: wstring_at returned.
CopiedOut ==
  \E i \in 1..(Len(GetCalls) - 1) :
    GetCalls[i] = "wstring_at" /\ GetCalls[i + 1] # "OSError"

\* The text starts with one of the three recognized SafeLinks hosts.
RecognizedPrefix(content) ==
  \/ startswith(content, EUR01)
  \/ startswith(content, GBR01)
  \/ startswith(content, NAM02)

\* The text read in this tick differs from last-observed, starts with a
\* recognized prefix, and decodes to a value.
Decodable(content) == decode_safelink(content).tag = "str"

TickDecodes ==
  /\ TickRead
  /\ current_content # tick_last
  /\ RecognizedPrefix(current_content)
  /\ Decodable(current_content)

\* The value the decoder yields for the text read in this tick.
D == decode_safelink(current_content).val

\* The clipboard holds the text t: its code units and the terminator.
ClipboardHolds(t) == clip = TextPayload(text_bytes_of(t))

\* C7 as stated: a read returns the empty string if the open fails, if no
\* Unicode-text handle is present, if GlobalLock fails, or if an access
\* violation occurs anywhere in the sequence.
C7_AnyFaultYieldsEmpty ==
  (/\ TickRead
   /\ \/ Failures(GetCalls, "OpenClipboard") = 1
      \/ Failures(GetCalls, "GetClipboardData") = 1
      \/ Failures(GetCalls, "GlobalLock") = 1
      \/ GetFaulted)
    => current_content = <<>>

\* C7 as amended: a read makes a single OpenClipboard attempt and never
\* raises; it returns the empty string if the open fails, if no
\* Unicode-text handle is present, if GlobalLock fails, or if an access
\* violation occurs before the text has been copied out; an access
\* violation after the copy (in GlobalUnlock) is swallowed too, and the
\* read returns the text it copied; no read changes the clipboard.
C7_ReadIsSoft ==
  /\ Count(GetCalls, "OpenClipboard") <= 1
  /\ TickRead =>
       /\ Count(GetCalls, "OpenClipboard") = 1
       /\ GetCalls[Len(GetCalls)] = "return"
       /\ ~CopiedOut => current_content = <<>>
       /\ (CopiedOut /\ ~interfered) =>
            current_content = wstring_at(tick_clip.mem)
  /\ pc = "raised" => Count(calls, "decode_safelink") = 1
  /\ (pc \in GetPcs \cup {"compare"} /\ ~interfered) => clip = tick_clip

C7_Witness ==
  /\ pc = "compare"
  /\ CopiedOut
  /\ GetFaulted
  /\ ~interfered
  /\ current_content = SAFELINK

\* C8 as stated: on every tick where the text read differs from
\* last-observed, starts with a recognized prefix and decodes to D, the
\* loop writes D via WriteText and sets last-observed to D, and with no
\* other process at the clipboard the clipboard then equals D.
C8_DecodedWrittenAndRecorded ==
  (TickDecodes /\ pc \in {"tick_sleep", "raised"})
    => /\ Count(calls, "set_clipboard_text") = 1
       /\ last_content = D
       /\ ~interfered => ClipboardHolds(D)

\* C8 as amended: on every such tick the loop calls WriteText(D); when
\* the call returns normally last-observed is set to D and, if no other
\* process changed the clipboard during the tick, the clipboard holds D;
\* when the call fails last-observed keeps its value.
C8_DecodedWrittenThenRecorded ==
  (/\ TickRead
   /\ pc # "compare"
   /\ current_content # tick_last
   /\ RecognizedPrefix(current_content)) =>
    LET d == decode_safelink(current_content)
    IN d.tag = "str" =>
         /\ Count(calls, "set_clipboard_text") = 1
         /\ text = d.val
         /\ pc = "tick_sleep" =>
              /\ last_content = d.val
              /\ ~interfered => ClipboardHolds(d.val)
         /\ pc = "raised" => last_content = tick_last

C8_Witness ==
  /\ pc = "tick_sleep"
  /\ TickDecodes
  /\ ~interfered
  /\ current_content = SAFELINK
  /\ last_content = EXAMPLE_URL
  /\ ClipboardHolds(EXAMPLE_URL)

\* C9: on every tick where the text read does not start with a recognized
\* prefix (the empty string of a failed read included) the loop writes
\* nothing, does not invoke the decoder and leaves last-observed as it
\* was; the clipboard is after the tick what it was before.
C9_OtherTextLeftAlone ==
  (TickRead /\ ~RecognizedPrefix(current_content))
    => /\ Count(calls, "decode_safelink") = 0
       /\ Count(calls, "set_clipboard_text") = 0
       /\ Count(calls, "EmptyClipboard") = 0
       /\ Count(calls, "SetClipboardData") = 0
       /\ last_content = tick_last
       /\ pc \in {"compare", "tick_sleep", "stopped"}
       /\ ~interfered => clip = tick_clip

C9_Witness ==
  /\ pc = "tick_sleep"
  /\ current_content = NOT_A_SAFELINK
  /\ tick_last = EXAMPLE_URL
  /\ ~interfered
  /\ ClipboardHolds(NOT_A_SAFELINK)

\* C10: every tick whose read returns text that starts with a recognized
\* prefix and carries a decodable url parameter ends, absent a write
\* failure, with the clipboard holding the decoded URL, whatever the
\* earlier ticks did.
C10_SafeLinkAlwaysReplaced ==
  (/\ pc = "tick_sleep"
   /\ RecognizedPrefix(current_content)
   /\ Decodable(current_content)
   /\ ~interfered)
    => ClipboardHolds(D)

(***************************************************************************)
(* Claims about the functions called on their own (CallSpec)               *)
(***************************************************************************)

\* The text set_clipboard_text was called on.
Written == decoded_url.val

\* None of the calls made so far failed or faulted.
AllSucceeded == Count(calls, "failed") = 0 /\ Count(calls, "OSError") = 0

\* The write has returned and the get_clipboard_text after it has returned,
\* every system call of both having succeeded.
WroteThenRead == pc = "compare" /\ AllSucceeded

\* The part of a text before its first null character.
UpToNull(t) ==
  IF find(t, "NUL") = 0 THEN t ELSE SubSeq(t, 1, find(t, "NUL") - 1)

\* C11 as stated: a write of t followed at once by a read, with no other
\* process and every system call succeeding, returns exactly t, for every
\* string t.
C11_RoundTripEveryText == WroteThenRead => current_content = Written

\* C11, amended: a write of t followed at once by a read, with no other
\* process and every system call succeeding, returns t up to its first null
\* character: exactly t when t holds no null character (characters outside
\* ASCII and above U+FFFF included), a proper prefix of t otherwise.
C11_RoundTripUpToNull ==
  WroteThenRead => current_content = UpToNull(Written)

C11_Witness ==
  /\ WroteThenRead
  /\ Written = <<"a", "U+1F600", "U+00E9">>
  /\ current_content = Written
  /\ clip.mem = <<"a", "U+D83D", "U+DE00", "U+00E9", "NUL">>

\* decode_safelink has returned from its call on a URL.
Returned == pc = "returned"

\* C12: decode_safelink of the SafeLink made of X (the eur01 host, ?url=,
\* and X percent-encoded) returns X, for X = https://example.com, for
\* X = https://example.com/path?a=1&b=2, and for an X that itself holds
\* percent-encoded characters (%20).
C12_DecodeRoundTrip ==
  \A X \in Targets :
    (Returned /\ text = MakeSafeLink(X)) => decoded_url = Str(X)

\* The call of decode_safelink has ended, by a return or by an exception.
DecodeEnded == pc \in {"returned", "raised"} /\ Head(calls) = "decode_safelink"

\* C13: decode_safelink is total: for every input string, URLs that are
\* not well formed included, it returns a string or None and never raises
\* (and, being pure, changes no state).
C13_DecodeNeverRaises ==
  DecodeEnded =>
    /\ pc = "returned"
    /\ decoded_url.tag \in {"str", "None"}
    /\ clip = NoText /\ owner = "none"

\* What follows the first ? of a URL, as its fields.
QueryFieldsOf(url) ==
  IF find(url, "?") = 0 THEN <<>>
  ELSE split(Tail_from(url, find(url, "?") + 1), "&")

\* The name and the value of a field name=value.
NameOf(field) ==
  IF find(field, "=") = 0 THEN field
  ELSE SubSeq(field, 1, find(field, "=") - 1)

ValueOf(field) ==
  IF find(field, "=") = 0 THEN <<>>
  ELSE Tail_from(field, find(field, "=") + 1)

\* The positions of the fields named url.
UrlFields(url) ==
  {i \in 1..Len(QueryFieldsOf(url)) : NameOf(QueryFieldsOf(url)[i]) = URL_KEY}

\* The first field named url.
FirstUrlField(url) ==
  QueryFieldsOf(url)[CHOOSE i \in UrlFields(url) :
                       \A j \in UrlFields(url) : i <= j]

\* C14: decode_safelink returns the percent-decoded value of the first
\* parameter named url whenever the query has such a parameter (its value
\* may be empty, the parameter may be repeated), and None exactly when the
\* query has no parameter named url.
C14_FirstUrlParameter ==
  DecodeEnded =>
    decoded_url = IF UrlFields(text) = {} THEN None
                  ELSE Str(unquote(ValueOf(FirstUrlField(text))))

(***************************************************************************)
(* Claims about run_service (Spec), continued                              *)
(***************************************************************************)

\* The write of this tick has failed and set_clipboard_text has been left.
WriteFailed == SetCalls # <<>> /\ pc \notin SetPcs /\ exc # "none"

\* C15: a failure of the write of a tick is not caught by the loop: it
\* leaves run_service, no further tick runs, and last_content keeps the
\* value it had when the tick began; the only exception run_service
\* handles is KeyboardInterrupt, after which it returns.
C15_WriteFailureEndsLoop ==
  /\ WriteFailed =>
       /\ pc = "raised"
       /\ last_content = tick_last
       /\ calls[Len(calls)] = "raise " \o exc
  /\ pc = "stopped" =>
       /\ calls[Len(calls)] = "KeyboardInterrupt"
       /\ exc = "none"
  /\ pc \in EndPcs => ~ENABLED Next

C15_Witness ==
  /\ WriteFailed
  /\ exc = "LOCKED"
  /\ current_content = SAFELINK_NESTED
  /\ tick_last = EXAMPLE_URL
  /\ last_content = EXAMPLE_URL

\* The text read in this tick differs from last-observed, starts with a
\* recognized prefix, and has no value the decoder yields.
TickUndecodable ==
  /\ TickRead
  /\ current_content # tick_last
  /\ RecognizedPrefix(current_content)
  /\ decode_safelink(current_content) = None

\* C16: a tick whose text differs from last-observed, starts with a
\* recognized prefix and decodes to nothing writes nothing and sets
\* last_content to the text read; and a tick that reads the text
\* last_content holds (as every later tick does while the clipboard still
\* reads as that text) does not call the decoder.
C16_UndecodableRecordedOnce ==
  /\ (pc = "tick_sleep" /\ TickUndecodable) =>
       /\ Count(calls, "decode_safelink") = 1
       /\ SetCalls = <<>>
       /\ last_content = current_content
       /\ ~interfered => clip = tick_clip
  /\ (pc \in {"tick_sleep", "stopped"} /\ current_content = tick_last) =>
       /\ Count(calls, "decode_safelink") = 0
       /\ last_content = tick_last

C16_Witness ==
  /\ pc = "tick_sleep"
  /\ tick_last = SAFELINK_NO_URL
  /\ current_content = SAFELINK_NO_URL
  /\ last_content = SAFELINK_NO_URL
  /\ tick_clip = TextPayload(text_bytes_of(SAFELINK_NO_URL))
  /\ ~interfered

\* This tick began with the clipboard holding the text of last_content as
\* set_clipboard_text stores it (the state a write of the loop leaves), and
\* no other process has changed the clipboard since.
OwnTextOnClipboard ==
  /\ tick_last # <<>>
  /\ tick_clip = TextPayload(text_bytes_of(tick_last))
  /\ ~interfered

\* C17 as stated: after the loop has written a decoded D, no later tick
\* writes again for as long as no other process changes the clipboard,
\* whatever D is (a decodable SafeLink included): at most one write for
\* each change another process makes.
C17_NoSelfTrigger == OwnTextOnClipboard => SetCalls = <<>>

\* C17, amended: after the loop has written a decoded D that holds no null
\* character, no later tick decodes or writes again for as long as no other
\* process changes the clipboard, even when D is a decodable SafeLink.
C17_NoSelfTriggerWithoutNull ==
  (OwnTextOnClipboard /\ find(tick_last, "NUL") = 0) =>
    /\ SetCalls = <<>>
    /\ Count(calls, "decode_safelink") = 0
    /\ last_content = tick_last
    /\ clip = tick_clip

C17_Witness ==
  /\ OwnTextOnClipboard
  /\ pc = "tick_sleep"
  /\ tick_last = decode_safelink(SAFELINK_NESTED).val
  /\ current_content = tick_last
  /\ Decodable(current_content)
  /\ RecognizedPrefix(current_content)
  /\ clip = TextPayload(text_bytes_of(tick_last))

\* C18: whenever the write of the loop replaces the content of the
\* clipboard (its EmptyClipboard succeeds), the content replaced is the
\* text the same tick read: what another process placed between the tick's
\* read and its write is never overwritten.
C18_ReplacesWhatItRead ==
  [][(pc = "set_empty" /\ pc' = "set_alloc") =>
       (clip.has /\ wstring_at(clip.mem) = current_content)]_vars

\* C19: when set_clipboard_text fails with LOCKED or EMPTY_FAILED the
\* clipboard holds what it held before the call; when it fails with
\* ALLOC_FAILED, LOCK_FAILED or SET_FAILED the clipboard has been emptied
\* and holds neither the previous nor the new text; the new text is on the
\* clipboard only when the call returns normally.  (The content meant is
\* the one this call leaves: no other process changes the clipboard during
\* the tick.)
C19_ClipboardAfterFailure ==
  (SetCalls # <<>> /\ ~interfered) =>
    /\ (WriteFailed /\ exc \in {"LOCKED", "EMPTY_FAILED"}) =>
         /\ clip = tick_clip
         /\ ~ClipboardHolds(text)
    /\ (WriteFailed /\ exc \in {"ALLOC_FAILED", "LOCK_FAILED", "SET_FAILED"}) =>
         /\ clip = NoText
         /\ tick_clip # NoText
         /\ Count(SetCalls, "EmptyClipboard") = 1
    /\ ClipboardHolds(text) =>
         /\ exc = "none"
         /\ pc \in {"set_finally", "set_close", "tick_sleep", "stopped"}
    /\ (pc = "tick_sleep" /\ exc = "none") => ClipboardHolds(text)

C19_Witness ==
  /\ WriteFailed
  /\ ~interfered
  /\ exc = "SET_FAILED"
  /\ tick_clip = TextPayload(text_bytes_of(SAFELINK))
  /\ text = EXAMPLE_URL
  /\ clip = NoText

=============================================================================
